---------------------------- MODULE Spec2Model ----------------------------
(***************************************************************************)
(* A model of src/schubfach.hpp for Float = float (binary32):              *)
(* float_traits<float>, math<uint32_t> and float_triple<float>.            *)
(*                                                                         *)
(* TLC's integers are 32-bit signed, so every value of type uint32_t,      *)
(* uint64_t or __uint128_t is held as a little-endian sequence of base-2^8 *)
(* limbs and the C++ operators on them are computed limb by limb, with the *)
(* wrap-around of the C++ type (a result is cut to the type's width).      *)
(* int32_t values stay TLC integers: none leaves the 32-bit range here.    *)
(***************************************************************************)
EXTENDS Integers, Sequences, FiniteSets, TLC

VARIABLES
  value,        \* the Float argument of the constructor, as its 32 bits
  significand,  \* float_triple::significand (uint32_t)
  exponent,     \* float_triple::exponent (int32_t)
  sign,         \* float_triple::sign (int8_t)
  pc,           \* "start", "constructed", "done" or "aborted"
  loc,          \* the locals of to_decimal() at its return or abort
  rto           \* an isolated call of math<uint32_t>::round_to_odd

vars == <<value, significand, exponent, sign, pc, loc, rto>>

---------------------------------------------------------------------------
(* Unsigned integers wider than 31 bits *)

Base == 2^8

Max(a, b) == IF a >= b THEN a ELSE b

Min(a, b) == IF a <= b THEN a ELSE b

Limb(a, i) == IF i <= Len(a) THEN a[i] ELSE 0

\* the n low limbs of the number whose i-th column holds cols[i] (+ carry c)
RECURSIVE Carry(_, _, _, _)
Carry(cols, i, c, n) ==
  IF i > n THEN <<>>
  ELSE LET t == Limb(cols, i) + c
       IN  <<t % Base>> \o Carry(cols, i + 1, t \div Base, n)

\* the value of an int32_t n >= 0 as limbs
RECURSIVE FromInt(_)
FromInt(n) == IF n = 0 THEN <<>> ELSE <<n % Base>> \o FromInt(n \div Base)

\* the value of limbs that fit an int32_t
RECURSIVE ToIntFrom(_, _)
ToIntFrom(a, i) == IF i > Len(a) THEN 0 ELSE a[i] + Base * ToIntFrom(a, i + 1)

ToInt(a) == ToIntFrom(a, 1)

\* -1, 0, 1 as a < b, a = b, a > b
RECURSIVE CmpFrom(_, _, _)
CmpFrom(a, b, i) ==
  IF i = 0 THEN 0
  ELSE IF Limb(a, i) < Limb(b, i) THEN -1
  ELSE IF Limb(a, i) > Limb(b, i) THEN 1
  ELSE CmpFrom(a, b, i - 1)

Cmp(a, b) == CmpFrom(a, b, Max(Len(a), Len(b)))

Leq(a, b) == Cmp(a, b) <= 0

Less(a, b) == Cmp(a, b) < 0

Eq(a, b) == Cmp(a, b) = 0

\* a + b, a - b and a * b modulo Base^n
AddN(a, b, n) == Carry([i \in 1..n |-> Limb(a, i) + Limb(b, i)], 1, 0, n)

SubN(a, b, n) == Carry([i \in 1..n |-> Limb(a, i) - Limb(b, i)], 1, 0, n)

RECURSIVE ColSum(_, _, _, _, _)
ColSum(a, b, c, i, hi) ==
  IF i > hi THEN 0 ELSE a[i] * b[c + 1 - i] + ColSum(a, b, c, i + 1, hi)

MulN(a, b, n) ==
  Carry([c \in 1..n |->
           ColSum(a, b, c, Max(1, c + 1 - Len(b)), Min(c, Len(a)))], 1, 0, n)

\* the exact product
Mul(a, b) == MulN(a, b, Len(a) + Len(b))

\* a modulo Base^n, and a divided by Base^n
LowLimbs(a, n) == [i \in 1..n |-> Limb(a, i)]

HighLimbs(a, n) == [i \in 1..Max(Len(a) - n, 0) |-> a[i + n]]

\* a divided by an int d, 0 < d <= 2^23
RECURSIVE Rem(_, _, _)
Rem(a, d, i) ==
  IF i > Len(a) THEN 0 ELSE (Rem(a, d, i + 1) * Base + a[i]) % d

DivSmall(a, d) == [i \in 1..Len(a) |-> (Rem(a, d, i + 1) * Base + a[i]) \div d]

\* 2^n as limbs
RECURSIVE BigPow2(_)
BigPow2(n) == IF n <= 30 THEN FromInt(2^n) ELSE Mul(FromInt(2^30), BigPow2(n - 30))

\* the bitwise and of two bytes, and of two numbers
RECURSIVE AndBits(_, _, _)
AndBits(x, y, n) ==
  IF n = 0 THEN 0
  ELSE (x % 2) * (y % 2) + 2 * AndBits(x \div 2, y \div 2, n - 1)

BitAnd(a, b) == [i \in 1..Max(Len(a), Len(b)) |-> AndBits(Limb(a, i), Limb(b, i), 8)]

\* std::bit_width and std::popcount of an int
RECURSIVE BitWidth(_)
BitWidth(x) == IF x = 0 THEN 0 ELSE 1 + BitWidth(x \div 2)

RECURSIVE PopCount(_)
PopCount(x) == IF x = 0 THEN 0 ELSE (x % 2) + PopCount(x \div 2)

---------------------------------------------------------------------------
(* uint32_t arithmetic: every result is cut to four limbs *)

U32(n) == LowLimbs(FromInt(n), 4)

U32Add(a, b) == AddN(a, b, 4)

U32Sub(a, b) == SubN(a, b, 4)

U32Mul(a, b) == MulN(a, b, 4)

\* a << h, 0 <= h < 32
U32Shl(a, h) == MulN(a, BigPow2(h), 4)

\* a >> h, 0 <= h <= 23
U32Shr(a, h) == DivSmall(a, 2^h)

U32Div(a, d) == DivSmall(a, d)

---------------------------------------------------------------------------
(* float_traits<float> *)

\* std::numeric_limits<float>::digits and ::max_exponent
Digits == 24

MaxExponent == 128

significand_width == Digits

exponent_width == BitWidth(MaxExponent)

sign_width == 1

has_hidden_bit == ((sign_width + exponent_width + significand_width) % 8) # 0

storage_width ==
  sign_width + exponent_width + significand_width + (IF has_hidden_bit THEN -1 ELSE 0)

exponent_bias == MaxExponent + significand_width - 2

exponent_shift == storage_width - sign_width - exponent_width

sign_shift == storage_width - sign_width

significand_mask ==
  U32Sub(U32Shl(U32(1), significand_width + (IF has_hidden_bit THEN -1 ELSE 0)), U32(1))

exponent_mask == U32Shl(U32Sub(U32Shl(U32(1), exponent_width), U32(1)), exponent_shift)

sign_mask == U32Shl(U32Sub(U32Shl(U32(1), sign_width), U32(1)), sign_shift)

---------------------------------------------------------------------------
(* math<uint32_t> *)

floor_log2_pow10(e) == (e * 1741647) \div 2^19

kMin == -31

kMax == 45

\* the table g, each entry as its four 16-bit groups, most significant first
gTable ==
  << <<\h81CE, \hB32C, \h4B43, \hFCF5>>, \* -31
     <<\hA242, \h5FF7, \h5E14, \hFC32>>, \* -30
     <<\hCAD2, \hF7F5, \h359A, \h3B3F>>, \* -29
     <<\hFD87, \hB5F2, \h8300, \hCA0E>>, \* -28
     <<\h9E74, \hD1B7, \h91E0, \h7E49>>, \* -27
     <<\hC612, \h0625, \h7658, \h9DDB>>, \* -26
     <<\hF796, \h87AE, \hD3EE, \hC552>>, \* -25
     <<\h9ABE, \h14CD, \h4475, \h3B53>>, \* -24
     <<\hC16D, \h9A00, \h9592, \h8A28>>, \* -23
     <<\hF1C9, \h0080, \hBAF7, \h2CB2>>, \* -22
     <<\h971D, \hA050, \h74DA, \h7BEF>>, \* -21
     <<\hBCE5, \h0864, \h9211, \h1AEB>>, \* -20
     <<\hEC1E, \h4A7D, \hB695, \h61A6>>, \* -19
     <<\h9392, \hEE8E, \h921D, \h5D08>>, \* -18
     <<\hB877, \hAA32, \h36A4, \hB44A>>, \* -17
     <<\hE695, \h94BE, \hC44D, \hE15C>>, \* -16
     <<\h901D, \h7CF7, \h3AB0, \hACDA>>, \* -15
     <<\hB424, \hDC35, \h095C, \hD810>>, \* -14
     <<\hE12E, \h1342, \h4BB4, \h0E14>>, \* -13
     <<\h8CBC, \hCC09, \h6F50, \h88CC>>, \* -12
     <<\hAFEB, \hFF0B, \hCB24, \hAAFF>>, \* -11
     <<\hDBE6, \hFECE, \hBDED, \hD5BF>>, \* -10
     <<\h8970, \h5F41, \h36B4, \hA598>>, \*  -9
     <<\hABCC, \h7711, \h8461, \hCEFD>>, \*  -8
     <<\hD6BF, \h94D5, \hE57A, \h42BD>>, \*  -7
     <<\h8637, \hBD05, \hAF6C, \h69B6>>, \*  -6
     <<\hA7C5, \hAC47, \h1B47, \h8424>>, \*  -5
     <<\hD1B7, \h1758, \hE219, \h652C>>, \*  -4
     <<\h8312, \h6E97, \h8D4F, \hDF3C>>, \*  -3
     <<\hA3D7, \h0A3D, \h70A3, \hD70B>>, \*  -2
     <<\hCCCC, \hCCCC, \hCCCC, \hCCCD>>, \*  -1
     <<\h8000, \h0000, \h0000, \h0000>>, \*   0
     <<\hA000, \h0000, \h0000, \h0000>>, \*   1
     <<\hC800, \h0000, \h0000, \h0000>>, \*   2
     <<\hFA00, \h0000, \h0000, \h0000>>, \*   3
     <<\h9C40, \h0000, \h0000, \h0000>>, \*   4
     <<\hC350, \h0000, \h0000, \h0000>>, \*   5
     <<\hF424, \h0000, \h0000, \h0000>>, \*   6
     <<\h9896, \h8000, \h0000, \h0000>>, \*   7
     <<\hBEBC, \h2000, \h0000, \h0000>>, \*   8
     <<\hEE6B, \h2800, \h0000, \h0000>>, \*   9
     <<\h9502, \hF900, \h0000, \h0000>>, \*  10
     <<\hBA43, \hB740, \h0000, \h0000>>, \*  11
     <<\hE8D4, \hA510, \h0000, \h0000>>, \*  12
     <<\h9184, \hE72A, \h0000, \h0000>>, \*  13
     <<\hB5E6, \h20F4, \h8000, \h0000>>, \*  14
     <<\hE35F, \hA931, \hA000, \h0000>>, \*  15
     <<\h8E1B, \hC9BF, \h0400, \h0000>>, \*  16
     <<\hB1A2, \hBC2E, \hC500, \h0000>>, \*  17
     <<\hDE0B, \h6B3A, \h7640, \h0000>>, \*  18
     <<\h8AC7, \h2304, \h89E8, \h0000>>, \*  19
     <<\hAD78, \hEBC5, \hAC62, \h0000>>, \*  20
     <<\hD8D7, \h26B7, \h177A, \h8000>>, \*  21
     <<\h8786, \h7832, \h6EAC, \h9000>>, \*  22
     <<\hA968, \h163F, \h0A57, \hB400>>, \*  23
     <<\hD3C2, \h1BCE, \hCCED, \hA100>>, \*  24
     <<\h8459, \h5161, \h4014, \h84A0>>, \*  25
     <<\hA56F, \hA5B9, \h9019, \hA5C8>>, \*  26
     <<\hCECB, \h8F27, \hF420, \h0F3A>>, \*  27
     <<\h813F, \h3978, \hF894, \h0985>>, \*  28
     <<\hA18F, \h07D7, \h36B9, \h0BE6>>, \*  29
     <<\hC9F2, \hC9CD, \h0467, \h4EDF>>, \*  30
     <<\hFC6F, \h7C40, \h4581, \h2297>>, \*  31
     <<\h9DC5, \hADA8, \h2B70, \hB59E>>, \*  32
     <<\hC537, \h1912, \h364C, \hE306>>, \*  33
     <<\hF684, \hDF56, \hC3E0, \h1BC7>>, \*  34
     <<\h9A13, \h0B96, \h3A6C, \h115D>>, \*  35
     <<\hC097, \hCE7B, \hC907, \h15B4>>, \*  36
     <<\hF0BD, \hC21A, \hBB48, \hDB21>>, \*  37
     <<\h9676, \h9950, \hB50D, \h88F5>>, \*  38
     <<\hBC14, \h3FA4, \hE250, \hEB32>>, \*  39
     <<\hEB19, \h4F8E, \h1AE5, \h25FE>>, \*  40
     <<\h92EF, \hD1B8, \hD0CF, \h37BF>>, \*  41
     <<\hB7AB, \hC627, \h0503, \h05AE>>, \*  42
     <<\hE596, \hB7B0, \hC643, \hC71A>>, \*  43
     <<\h8F7E, \h32CE, \h7BEA, \h5C70>>, \*  44
     <<\hB35D, \hBF82, \h1AE4, \hF38C>>  \*  45
  >>

\* a uint64_t from its four 16-bit groups, most significant first
U64(w) ==
  << w[4] % Base, w[4] \div Base, w[3] % Base, w[3] \div Base,
     w[2] % Base, w[2] \div Base, w[1] % Base, w[1] \div Base >>

\* the first SF_ASSERT written k > kMin
InTable_strict(k) == k > kMin /\ k <= kMax

\* the two SF_ASSERTs of compute_pow10
InTable(k) == k >= kMin /\ k <= kMax

\* g[static_cast<uint32_t>(k - kMin)], for k in the table
compute_pow10(k) == U64(gTable[k - kMin + 1])

\* limits::digits of uint32_t, in limbs
WordLimbs == 32 \div 8

word0(x) == LowLimbs(HighLimbs(x, WordLimbs), WordLimbs)

word1(x) == LowLimbs(HighLimbs(x, 2 * WordLimbs), WordLimbs)

\* y1 | b for a bool b
OrBool(y1, b) ==
  IF b /\ Limb(y1, 1) % 2 = 0 THEN [y1 EXCEPT ![1] = @ + 1] ELSE y1

\* return y1 | (y0 > 0)
odd_of_any(p) == OrBool(word1(p), Less(U32(0), word0(p)))

\* return y1 | (y0 > 1), for the product p
odd_of(p) == OrBool(word1(p), Less(U32(1), word0(p)))

round_to_odd(g, cp) == odd_of(Mul(g, cp))


---------------------------------------------------------------------------
(* float_triple<float> *)

\* the constructor with the subnormal exponent left at 1 - exponent_bias
float_triple_unshifted(v) ==
  LET bits == v
      e0   == ToInt(U32Shr(BitAnd(bits, exponent_mask), exponent_shift))
      sg   == IF Eq(BitAnd(bits, sign_mask), U32(0)) THEN 1 ELSE -1
      s0   == ToInt(BitAnd(bits, significand_mask))
  IN  IF e0 = 0 /\ s0 # 0
      THEN LET e1 == significand_width - BitWidth(s0)
           IN  [significand |-> ToInt(U32Shl(U32(s0), e1)),
                exponent    |-> 1 - exponent_bias,
                sign        |-> sg]
      ELSE IF e0 # 0
      THEN [significand |-> s0 + 2^(significand_width - 1),
            exponent    |-> e0 - exponent_bias,
            sign        |-> sg]
      ELSE [significand |-> s0, exponent |-> e0, sign |-> sg]

\* float_triple(Float value): the three fields the constructor leaves
float_triple(v) ==
  LET bits == v
      e0   == ToInt(U32Shr(BitAnd(bits, exponent_mask), exponent_shift))
      sg   == IF Eq(BitAnd(bits, sign_mask), U32(0)) THEN 1 ELSE -1
      s0   == ToInt(BitAnd(bits, significand_mask))
  IN  IF e0 = 0 /\ s0 # 0
      THEN LET e1 == significand_width - BitWidth(s0)
           IN  [significand |-> ToInt(U32Shl(U32(s0), e1)),
                exponent    |-> 1 - exponent_bias - e1,
                sign        |-> sg]
      ELSE IF e0 # 0
      THEN [significand |-> IF has_hidden_bit
                            THEN s0 + (1 - ((s0 \div 2^(significand_width - 1)) % 2))
                                        * 2^(significand_width - 1)
                            ELSE s0,
            exponent    |-> e0 - exponent_bias,
            sign        |-> sg]
      ELSE [significand |-> s0, exponent |-> e0, sign |-> sg]

\* const bool lower_boundary_is_closer = std::popcount(significand) == 1
lower_boundary_is_closer(sig) == PopCount(sig) = 1

\* k without the correction term of the asymmetric case
estimate_k_plain(exp, lbic) == (exp * 1262611) \div 2^22

\* const int32_t k = (exponent * 1262611 - (... ? 524031 : 0)) >> 22
estimate_k(exp, lbic) == (exp * 1262611 - (IF lbic THEN 524031 ELSE 0)) \div 2^22

\* h without the + 1
shift_h_short(exp, k) == exp + floor_log2_pow10(-k)

\* const int32_t h = exponent + math::floor_log2_pow10(-k) + 1
shift_h(exp, k) == exp + floor_log2_pow10(-k) + 1

Bool(b) == IF b THEN 1 ELSE 0

\* to_decimal() up to exponent = k: the two fields as they are on entry, and
\* the locals set before the table lookup
scaled(sig, exp, is_even, lbic, k) ==
  [significand |-> sig,
   exponent    |-> exp,
   is_even      |-> is_even,
   accept_lower |-> is_even,
   accept_upper |-> is_even,
   lower_boundary_is_closer |-> lbic,
   cbl |-> U32Add(U32Sub(U32Mul(U32(4), U32(sig)), U32(2)), U32(Bool(lbic))),
   cb  |-> U32Mul(U32(4), U32(sig)),
   cbr |-> U32Add(U32Mul(U32(4), U32(sig)), U32(2)),
   k   |-> k,
   h   |-> shift_h(exp, k)]

estimated(sig, exp, lbic) == scaled(sig, exp, sig % 2 = 0, lbic, estimate_k(exp, lbic))

before_lookup(sig, exp) == estimated(sig, exp, lower_boundary_is_closer(sig))

\* the same with exponent++ left out of the digit-trimming step
digits_same_exponent(k, v, s, sp) ==
  LET up_inside == Leq(v.lower, U32Mul(U32(40), U32(sp)))
      wp_inside == Leq(U32Add(U32Mul(U32(40), U32(sp)), U32(40)), v.upper)
      u_inside  == Leq(v.lower, U32Mul(U32(4), U32(s)))
      w_inside  == Leq(U32Add(U32Mul(U32(4), U32(s)), U32(4)), v.upper)
      mid       == U32Add(U32Mul(U32(4), U32(s)), U32(2))
      round_up  == Less(mid, v.vb) \/ (Eq(v.vb, mid) /\ s % 2 # 0)
  IN  IF s >= 10 /\ up_inside # wp_inside
      THEN [significand |-> sp + Bool(wp_inside), exponent |-> k,
            ret |-> "shorter", loc |-> v]
      ELSE IF u_inside # w_inside
      THEN [significand |-> s + Bool(w_inside), exponent |-> k,
            ret |-> "inside", loc |-> v]
      ELSE [significand |-> s + Bool(round_up), exponent |-> k,
            ret |-> "nearest", loc |-> v]

\* the digit-trimming step, the same-digit-count check and the final rounding,
\* on the locals v, with s = vb / 4 and sp = s / 10
digits(k, v, s, sp) ==
  LET up_inside == Leq(v.lower, U32Mul(U32(40), U32(sp)))
      wp_inside == Leq(U32Add(U32Mul(U32(40), U32(sp)), U32(40)), v.upper)
      u_inside  == Leq(v.lower, U32Mul(U32(4), U32(s)))
      w_inside  == Leq(U32Add(U32Mul(U32(4), U32(s)), U32(4)), v.upper)
      mid       == U32Add(U32Mul(U32(4), U32(s)), U32(2))
      round_up  == Less(mid, v.vb) \/ (Eq(v.vb, mid) /\ s % 2 # 0)
  IN  IF s >= 10 /\ up_inside # wp_inside
      THEN [significand |-> sp + Bool(wp_inside), exponent |-> k + 1,
            ret |-> "shorter", loc |-> v]
      ELSE IF u_inside # w_inside
      THEN [significand |-> s + Bool(w_inside), exponent |-> k,
            ret |-> "inside", loc |-> v]
      ELSE [significand |-> s + Bool(round_up), exponent |-> k,
            ret |-> "nearest", loc |-> v]

candidate(k, v) == digits(k, v, v.s, v.s \div 10)

\* lower, upper and significand = vb / 4
bounded(b, pow10, vbl, vb, vbr) ==
  candidate(b.k,
            [pow10 |-> pow10, vbl |-> vbl, vb |-> vb, vbr |-> vbr,
             lower |-> U32Add(vbl, U32(Bool(~b.accept_lower))),
             upper |-> U32Sub(vbr, U32(Bool(~b.accept_upper))),
             s     |-> ToInt(U32Div(vb, 4))])

\* to_decimal() from the lookup on: the locals, and the two fields it writes
after_lookup(b, pow10) ==
  bounded(b, pow10,
          round_to_odd(pow10, U32Shl(b.cbl, b.h)),
          round_to_odd(pow10, U32Shl(b.cb, b.h)),
          round_to_odd(pow10, U32Shl(b.cbr, b.h)))

---------------------------------------------------------------------------
(* The inputs *)

\* how far around each anchor the significand fields are taken
NearWidth == 1

\* how many of the smallest words and multipliers round_to_odd is called on
SmallWords == 3

FracMax == 2^(Digits - 1) - 1

\* significand fields: the neighbourhoods of 0, of the largest field, of the
\* middle one and of the fields of 0.1f, 100.0f, 0.3f and 1e23f
FracAnchors == {0, FracMax, 2^(Digits - 2), \h4CCCCD, \h480000, \h19999A, \h296816}

NearFields ==
  {f \in {a + d : a \in FracAnchors, d \in (-NearWidth)..NearWidth} :
     f >= 0 /\ f <= FracMax}

\* every significand field with one bit set
PowerFields == {2^i : i \in 0..(Digits - 2)}

\* every significand field with two adjacent bits set
TwoBitFields == {3 * 2^i : i \in 0..(Digits - 3)}

ExpFields == 0..(2 * MaxExponent - 1)

\* the exponent fields that both signs and every one-bit and two-bit
\* significand field are tried with (with exponent field 0 these are the
\* subnormals of every normalised exponent -172..-150)
EdgeExpFields == {0, 1, 2, MaxExponent - 1, 2 * MaxExponent - 2, 2 * MaxExponent - 1}

\* the 32 bits of the float with sign bit s, exponent field e, significand field f
FloatBits(s, e, f) == U32Add(U32Shl(U32(s), 31), U32(e * 2^(Digits - 1) + f))

Inputs ==
  {FloatBits(0, e, f) : e \in ExpFields, f \in NearFields}
    \cup {FloatBits(s, e, f) :
            s \in {0, 1}, e \in EdgeExpFields,
            f \in NearFields \cup PowerFields \cup TwoBitFields}

\* what an out-of-bounds read of g may return when SF_ASSERT is compiled out
StrayWords ==
  { U64(<<0, 0, 0, 0>>), U64(<<\hFFFF, \hFFFF, \hFFFF, \hFFFF>>),
    U64(<<\h8000, 0, 0, 1>>) }

NoLocals == [called |-> FALSE]

NoCall == [called |-> FALSE]

---------------------------------------------------------------------------
(* float_triple(value).to_decimal() *)

Init ==
  /\ value \in Inputs
  /\ significand = 0
  /\ exponent = 0
  /\ sign = 0
  /\ pc = "start"
  /\ loc = NoLocals
  /\ rto = NoCall

\* the fields the constructor writes
Constructed(t) ==
  /\ significand' = t.significand
  /\ exponent' = t.exponent
  /\ sign' = t.sign

Construct ==
  /\ pc = "start"
  /\ Constructed(float_triple(value))
  /\ pc' = "constructed"
  /\ UNCHANGED <<value, loc, rto>>

\* to_decimal() returns r, computed from the locals b
Returned(b, r, stray) ==
  /\ significand' = r.significand
  /\ exponent' = r.exponent
  /\ loc' = [called |-> TRUE, stray |-> stray, before |-> b,
             after |-> r.loc, ret |-> r.ret]
  /\ pc' = "done"

Looked(b) ==
  /\ InTable(-b.k)
  /\ Returned(b, after_lookup(b, compute_pow10(-b.k)), FALSE)

Asserted(b) ==
  /\ ~InTable(-b.k)
  /\ exponent' = b.k
  /\ loc' = [called |-> TRUE, stray |-> FALSE, before |-> b]
  /\ pc' = "aborted"

Strayed(b) ==
  /\ ~InTable(-b.k)
  /\ \E w \in StrayWords : Returned(b, after_lookup(b, w), TRUE)

\* to_decimal() with the lookup inside the table
ToDecimalReturn ==
  /\ pc = "constructed"
  /\ Looked(before_lookup(significand, exponent))
  /\ UNCHANGED <<value, sign, rto>>

\* to_decimal() with the lookup outside the table: an SF_ASSERT fails
ToDecimalAssert ==
  /\ pc = "constructed"
  /\ Asserted(before_lookup(significand, exponent))
  /\ UNCHANGED <<value, significand, sign, rto>>

\* the same with SF_ASSERT compiled out (NDEBUG): g is read out of bounds
ToDecimalStray ==
  /\ pc = "constructed"
  /\ Strayed(before_lookup(significand, exponent))
  /\ UNCHANGED <<value, sign, rto>>

ToDecimal == ToDecimalReturn \/ ToDecimalAssert \/ ToDecimalStray

Next == Construct \/ ToDecimal

Spec == Init /\ [][Next]_vars

---------------------------------------------------------------------------
(* math<uint32_t>::round_to_odd(g, cp) on its own *)

RtoWords ==
  {LowLimbs(FromInt(n), 8) : n \in 0..SmallWords}
    \cup { U64(<<0, 0, 1, 0>>), U64(<<0, 0, 1, 1>>), U64(<<0, 0, 2, 0>>),
           U64(<<0, 1, 0, 0>>), U64(<<0, 1, 0, 1>>), U64(<<0, 1, 1, 0>>),
           U64(<<\h8000, 0, 0, 0>>), U64(<<\hFFFF, \hFFFF, \hFFFF, \hFFFF>>),
           compute_pow10(-1), compute_pow10(kMax) }

RtoMultipliers ==
  {U32(n) : n \in 0..SmallWords}
    \cup { U32(2^16), U32(2^30), U32Shl(U32(1), 31),
           U32Sub(U32(0), U32(1)), U32Sub(U32(0), U32(2)) }

InitRTO ==
  /\ value = U32(0)
  /\ significand = 0
  /\ exponent = 0
  /\ sign = 0
  /\ pc = "idle"
  /\ loc = NoLocals
  /\ rto \in {[called |-> FALSE, g |-> g, cp |-> cp] : g \in RtoWords, cp \in RtoMultipliers}

CallRoundToOdd ==
  /\ pc = "idle"
  /\ ~rto.called
  /\ rto' = [called |-> TRUE, g |-> rto.g, cp |-> rto.cp,
             y |-> round_to_odd(rto.g, rto.cp)]
  /\ UNCHANGED <<value, significand, exponent, sign, pc, loc>>

NextRTO == CallRoundToOdd

SpecRTO == InitRTO /\ [][NextRTO]_vars


---------------------------------------------------------------------------
(* IEEE 754 binary32, read off the 32 bits of value: the sign bit, the     *)
(* 8-bit exponent field E and the 23-bit significand field F.  A finite    *)
(* nonzero float has the magnitude m * 2^q with                            *)
(*   m = 2^23 + F, q = E - 150   for 0 < E < 255 (normal),                 *)
(*   m = F,        q = -149      for E = 0, F # 0 (subnormal).             *)

SignBit(v) == v[4] \div 2^7

ExpField(v) == (v[4] % 2^7) * 2 + v[3] \div 2^7

FracField(v) == (v[3] % 2^7) * 2^16 + v[2] * 2^8 + v[1]

IsZero(v) == ExpField(v) = 0 /\ FracField(v) = 0

IsInfOrNaN(v) == ExpField(v) = 255

IsSubnormal(v) == ExpField(v) = 0 /\ FracField(v) # 0

IsNormal(v) == ExpField(v) > 0 /\ ExpField(v) < 255

FiniteNonzero(v) == IsSubnormal(v) \/ IsNormal(v)

\* m and q of the exponent field E and significand field F
MagM(E, F) == IF E = 0 THEN F ELSE 2^23 + F

MagQ(E, F) == IF E = 0 THEN -149 ELSE E - 150

IeeeM(v) == MagM(ExpField(v), FracField(v))

IeeeQ(v) == MagQ(ExpField(v), FracField(v))

\* to_decimal() has run to its end: it returned or an SF_ASSERT failed
Finished == pc \in {"done", "aborted"}

---------------------------------------------------------------------------
(* Exact comparison of numbers n * 10^d * 2^b, n >= 0 an integer (as       *)
(* limbs), d and b integers of either sign                                 *)

MaxDec == kMax + Digits

MaxBin == exponent_bias + 2 * Digits

RECURSIVE BigPow10(_)
BigPow10(n) == IF n <= 9 THEN FromInt(10^n) ELSE Mul(FromInt(10^9), BigPow10(n - 9))

Pow10Tab == [n \in 0..MaxDec |-> BigPow10(n)]

Pow2Tab == [n \in 0..MaxBin |-> BigPow2(n)]

Pos(x) == IF x > 0 THEN x ELSE 0

Num(n, d, b) == [n |-> n, d |-> d, b |-> b]

\* x scaled by 10^dd * 2^bb, for dd, bb >= 0
Scale(n, dd, bb) == Mul(Mul(n, Pow10Tab[dd]), Pow2Tab[bb])

\* -1, 0, 1 as x < y, x = y, x > y
CmpNum(x, y) ==
  Cmp(Scale(x.n, Pos(x.d - y.d), Pos(x.b - y.b)),
      Scale(y.n, Pos(y.d - x.d), Pos(y.b - x.b)))

LeqNum(x, y) == CmpNum(x, y) <= 0

LessNum(x, y) == CmpNum(x, y) < 0

One == FromInt(1)

---------------------------------------------------------------------------
(* The claims *)

\* C4: for every finite nonzero bit pattern, after the constructor sign is +1
\* iff the sign bit is clear (else -1), 2^(p-1) <= significand < 2^p with
\* p = significand_width, and significand * 2^exponent is the magnitude
\* m * 2^q the bit pattern encodes.
C4_Decomposition ==
  (pc = "constructed" /\ FiniteNonzero(value)) =>
    /\ sign = (IF SignBit(value) = 0 THEN 1 ELSE -1)
    /\ significand >= 2^(significand_width - 1)
    /\ significand < 2^significand_width
    /\ exponent <= IeeeQ(value)
    /\ IeeeQ(value) - exponent < significand_width
    /\ significand % 2^(IeeeQ(value) - exponent) = 0
    /\ significand \div 2^(IeeeQ(value) - exponent) = IeeeM(value)

\* the smallest subnormal, negative, has been normalised to -(2^23 * 2^-172)
C4_Witness ==
  /\ pc = "constructed"
  /\ ExpField(value) = 0 /\ FracField(value) = 1 /\ SignBit(value) = 1
  /\ significand = 2^23 /\ exponent = -172 /\ sign = -1

\* C9: with e the binary exponent of a finite nonzero input on entry,
\* 10^k <= 2^e < 10^(k+1) when lower_boundary_is_closer is false,
\* 4 * 10^k <= 3 * 2^e < 4 * 10^(k+1) when it is true, and
\* h = e + j + 1 where 2^j <= 10^(-k) < 2^(j+1).
C9_Estimate ==
  (Finished /\ FiniteNonzero(value)) =>
    LET e == loc.before.exponent
        k == loc.before.k
        j == loc.before.h - e - 1
    IN  /\ IF loc.before.lower_boundary_is_closer
           THEN /\ LeqNum(Num(FromInt(4), k, 0), Num(FromInt(3), 0, e))
                /\ LessNum(Num(FromInt(3), 0, e), Num(FromInt(4), k + 1, 0))
           ELSE /\ LeqNum(Num(One, k, 0), Num(One, 0, e))
                /\ LessNum(Num(One, 0, e), Num(One, k + 1, 0))
        /\ LeqNum(Num(One, 0, j), Num(One, -k, 0))
        /\ LessNum(Num(One, -k, 0), Num(One, 0, j + 1))

\* 1.0f: e = -23 and the correction term makes k = -8, not floor(-23 log10 2) = -7
C9_Witness ==
  /\ pc = "done"
  /\ FiniteNonzero(value)
  /\ loc.before.lower_boundary_is_closer
  /\ loc.before.exponent = -23
  /\ loc.before.k = -8
  /\ loc.before.h = 4

\* the exact value of 40 * n + 40 and the like, never cut
Affine(a, n, c) == AddN(MulN(FromInt(a), FromInt(n), 8), FromInt(c), 8)

Fits32(a) == Less(a, BigPow2(32))

\* C10: for every finite nonzero input 1 <= h <= 4 and no uint32_t computation
\* of to_decimal() wraps: 4 * significand - 2 >= 0, (4 * significand + 2) << h
\* < 2^32, vbr - !accept_upper >= 0, 40 * sp + 40 < 2^32, 4 * significand + 4
\* < 2^32.
C10_NoWrap ==
  (Finished /\ FiniteNonzero(value)) =>
    /\ loc.before.h >= 1
    /\ loc.before.h <= 4
    /\ 4 * loc.before.significand - 2 >= 0
    /\ Fits32(Mul(Affine(4, loc.before.significand, 2), BigPow2(loc.before.h)))
    /\ pc = "done" =>
         /\ Leq(FromInt(Bool(~loc.before.accept_upper)), loc.after.vbr)
         /\ Fits32(Affine(40, loc.after.s \div 10, 40))
         /\ Fits32(Affine(4, loc.after.s, 4))

\* an odd significand (the boundaries are excluded, so 1 is subtracted from
\* vbr), the largest shift, and the digit-trimming step taken
C10_Witness ==
  /\ pc = "done"
  /\ FiniteNonzero(value)
  /\ ~loc.before.accept_upper
  /\ loc.before.h = 4
  /\ loc.after.s >= 10
  /\ loc.ret = "shorter"


---------------------------------------------------------------------------
(* Round-to-nearest-even of a decimal to binary32.  In units of 2^(q-2)    *)
(* the float m * 2^q is 4m, the midpoint to the next larger float is       *)
(* 4m + 2, and the midpoint to the next smaller one is 4m - 2, or 4m - 1   *)
(* when the next smaller float is only half as far: F = 0 and E > 1.  A    *)
(* midpoint rounds to the float with the even m.                           *)

LowerMid(v) ==
  4 * IeeeM(v) - (IF FracField(v) = 0 /\ ExpField(v) > 1 THEN 1 ELSE 2)

UpperMid(v) == 4 * IeeeM(v) + 2

Between(lo, x, hi, closed) ==
  IF closed THEN LeqNum(lo, x) /\ LeqNum(x, hi) ELSE LessNum(lo, x) /\ LessNum(x, hi)

\* d * 10^e parses back to the magnitude of v
RoundsTo(d, e, v) ==
  Between(Num(FromInt(LowerMid(v)), 0, IeeeQ(v) - 2),
          Num(FromInt(d), e, 0),
          Num(FromInt(UpperMid(v)), 0, IeeeQ(v) - 2),
          IeeeM(v) % 2 = 0)

RECURSIVE NumDigits(_)
NumDigits(n) == IF n < 10 THEN 1 ELSE 1 + NumDigits(n \div 10)

\* C1: for every finite nonzero f, float_triple(f).to_decimal() yields
\* (significand, exponent, sign) with sign the sign of f and
\* significand * 10^exponent inside the rounding interval of f.
C1_RoundTrip ==
  (Finished /\ FiniteNonzero(value)) =>
    /\ pc = "done"
    /\ sign = (IF SignBit(value) = 0 THEN 1 ELSE -1)
    /\ RoundsTo(significand, exponent, value)

\* What holds of C1: whenever to_decimal() returns on a normal input, the
\* triple parses back to the input.
ReturnedRoundTrip ==
  (pc = "done" /\ IsNormal(value)) =>
    /\ sign = (IF SignBit(value) = 0 THEN 1 ELSE -1)
    /\ RoundsTo(significand, exponent, value)

\* decimals of fewer digits than s = significand near s * 10^exponent: with
\* e = exponent + j, the two multiples of 10^j around s and, for j = 0, the
\* largest number of fewer digits
Shorter(s, j) ==
  {d \in (IF j = 0 THEN {10^(NumDigits(s) - 1) - 1}
                   ELSE {s \div 10^j, s \div 10^j + 1}) :
     d >= 1 /\ NumDigits(d) < NumDigits(s)}

\* C2: for every finite nonzero f the returned significand has the fewest
\* digits: no d of fewer digits and no e make d * 10^e round back to f.
C2_Shortest ==
  (Finished /\ FiniteNonzero(value)) =>
    /\ pc = "done"
    /\ \A j \in 0..NumDigits(significand) :
         \A d \in Shorter(significand, j) : ~RoundsTo(d, exponent + j, value)

\* n without its trailing zeros, and how many they are
RECURSIVE Strip(_)
Strip(n) == IF n > 0 /\ n % 10 = 0 THEN Strip(n \div 10) ELSE n

RECURSIVE Zeros(_)
Zeros(n) == IF n > 0 /\ n % 10 = 0 THEN 1 + Zeros(n \div 10) ELSE 0

\* What holds of C2: whenever to_decimal() returns on a normal input, no
\* decimal of fewer digits than the significand without its trailing zeros
\* rounds back to the input.
ReturnedShortest ==
  (pc = "done" /\ IsNormal(value)) =>
    \A j \in 0..NumDigits(Strip(significand)) :
      \A d \in Shorter(Strip(significand), j) :
        ~RoundsTo(d, exponent + Zeros(significand) + j, value)

\* C3: for every finite nonzero input the index -k passed to compute_pow10 is
\* in -31..45: no SF_ASSERT fails and g is not read out of bounds.
C3_LookupRange ==
  (Finished /\ FiniteNonzero(value)) =>
    /\ -loc.before.k >= -31
    /\ -loc.before.k <= 45
    /\ pc = "done"
    /\ ~loc.stray

OneF == FloatBits(0, 127, 0)

TenthF == FloatBits(0, 123, \h4CCCCD)

HundredF == FloatBits(0, 133, \h480000)

C6_Original == (Finished /\ ~FiniteNonzero(value)) => pc = "aborted"

\* C6, amended: on a zero, an infinity or a NaN no SF_ASSERT fails and
\* to_decimal() returns: significand 0 and exponent 0 for a zero; an infinity
\* or a NaN enters with binary exponent 105 and looks up index -k = -31.
C6_Returns ==
  (Finished /\ ~FiniteNonzero(value)) =>
    /\ pc = "done"
    /\ ~loc.stray
    /\ IsZero(value) => (significand = 0 /\ exponent = 0)
    /\ IsInfOrNaN(value) => (loc.before.exponent = 105 /\ loc.before.k = 31)

\* a NaN has been converted
C6_Witness ==
  /\ pc = "done"
  /\ IsInfOrNaN(value)
  /\ FracField(value) # 0
  /\ loc.before.k = 31

\* bit i of a number
Bit(a, i) == (Limb(a, i \div 8 + 1) \div 2^(i % 8)) % 2

\* the product g * cp of the call, and its bits 64..95
RtoProduct == Mul(rto.g, rto.cp)

RtoHigh == LowLimbs(HighLimbs(RtoProduct, 8), 4)

WithBit0(y) == [y EXCEPT ![1] = @ - (@ % 2) + 1]

\* C7, as stated: round_to_odd(g, cp) is bits 64..95 of g * cp with the lowest
\* bit forced to 1 iff some bit 0..63 of the product is set, else unchanged.
C7_Original ==
  rto.called =>
    rto.y = IF \E i \in 0..63 : Bit(RtoProduct, i) = 1
            THEN WithBit0(RtoHigh) ELSE RtoHigh

\* C7, amended: the lowest bit is forced to 1 iff some bit 33..63 of the
\* product is set; bits 0..32 are ignored.
C7_Sticky ==
  rto.called =>
    rto.y = IF \E i \in 33..63 : Bit(RtoProduct, i) = 1
            THEN WithBit0(RtoHigh) ELSE RtoHigh

\* a product with set bits only among bits 0..32 has been returned unchanged
C7_Witness ==
  /\ rto.called
  /\ \E i \in 0..32 : Bit(RtoProduct, i) = 1
  /\ \A i \in 33..63 : Bit(RtoProduct, i) = 0
  /\ Bit(RtoHigh, 0) = 0
  /\ rto.y = RtoHigh

\* the float next below and next above the magnitude with fields E, F
PredE(E, F) == IF F > 0 THEN E ELSE E - 1

PredF(E, F) == IF F > 0 THEN F - 1 ELSE FracMax

SuccE(E, F) == IF F < FracMax THEN E ELSE E + 1

SuccF(E, F) == IF F < FracMax THEN F + 1 ELSE 0

\* the distance between two adjacent magnitudes, the first the smaller
Gap(E1, F1, E2, F2) ==
  Num(FromInt(MagM(E2, F2) * 2^(MagQ(E2, F2) - MagQ(E1, F1)) - MagM(E1, F1)),
      0, MagQ(E1, F1))

GapBelow(E, F) == Gap(PredE(E, F), PredF(E, F), E, F)

GapAbove(E, F) == Gap(E, F, SuccE(E, F), SuccF(E, F))

Twice(x) == Num(AddN(x.n, x.n, Len(x.n) + 1), x.d, x.b)

\* C8: to_decimal() sets lower_boundary_is_closer exactly when the decomposed
\* significand has one bit set, and for every finite nonzero input for which
\* it is set the gap to the next smaller magnitude is half the gap to the
\* next larger one.
C8_Asymmetry ==
  (Finished /\ FiniteNonzero(value)) =>
    /\ loc.before.lower_boundary_is_closer <=> PopCount(loc.before.significand) = 1
    /\ loc.before.lower_boundary_is_closer =>
         CmpNum(Twice(GapBelow(ExpField(value), FracField(value))),
                GapAbove(ExpField(value), FracField(value))) = 0

=============================================================================
